---- MODULE Spec2Model ----
(***************************************************************************)
(* Model of the AI Fraud Detection System: the rule engine                 *)
(* (fraud_detection_engine.py), the request adapter                        *)
(* (transaction_processor.py) and the two POST handlers of the Flask       *)
(* server (app.py).                                                        *)
(*                                                                         *)
(* Python values are modelled as follows.  A str is a TLA+ string and the  *)
(* string methods the code calls (lower, strip, split, replace,            *)
(* startswith, in) are computed character by character.  A float amount is *)
(* a decimal with two places, held as its number of hundredths, and the    *)
(* quotient amount / avg is the IEEE 754 double the program computes from  *)
(* the doubles nearest to the two.  An Optional value is a record          *)
(* [is_none, value], so                                                    *)
(* that None, an empty list and a non-empty list are three values;         *)
(* Python's truthiness of an Optional list is "not None and not empty".    *)
(***************************************************************************)
EXTENDS Integers, Sequences, FiniteSets, TLC

VARIABLES
    engine,          \* the one FraudDetectionEngine: its configuration attributes
    pc,              \* "call" before a direct analyze_transaction call, "return" after
    transaction,     \* the Transaction handed to a direct analyze_transaction call
    frame,           \* the locals of that call at its return (the *_risk values)
    result,          \* the dictionary that call returned
    th_pc,           \* per thread: the rule step the thread's call is at
    th_txn,          \* per thread: the Transaction of the thread's call
    th_risk_score,   \* per thread: the local risk_score accumulator
    th_risk_factors, \* per thread: the local risk_factors accumulator
    th_result,       \* per thread: the dictionary the call returned
    request,         \* the HTTP request being served: endpoint and parsed JSON body
    response         \* the HTTP response: status code and body

vars == <<engine, pc, transaction, frame, result, th_pc, th_txn, th_risk_score,
          th_risk_factors, th_result, request, response>>

\* Optional[...]: None, or a value
NoneStr  == [is_none |-> TRUE, value |-> ""]
NoneList == [is_none |-> TRUE, value |-> <<>>]
NoneBool == [is_none |-> TRUE, value |-> FALSE]
NoneInt  == [is_none |-> TRUE, value |-> 0]
Some(v)  == [is_none |-> FALSE, value |-> v]

----------------------------------------------------------------------------
(* Python string methods *)

UpperChars == "ABCDEFGHIJKLMNOPQRSTUVWXYZ"
LowerChars == "abcdefghijklmnopqrstuvwxyz"
DigitChars == "0123456789"

\* the 1-based position of character c in string s, 0 when it is not there
IndexIn(c, s) ==
    IF \E i \in 1..Len(s) : SubSeq(s, i, i) = c
    THEN CHOOSE i \in 1..Len(s) : SubSeq(s, i, i) = c
    ELSE 0

LowerChar(c) ==
    IF IndexIn(c, UpperChars) > 0
    THEN SubSeq(LowerChars, IndexIn(c, UpperChars), IndexIn(c, UpperChars))
    ELSE c

\* str.lower()
RECURSIVE Lower(_)
Lower(s) ==
    IF s = "" THEN ""
    ELSE LowerChar(SubSeq(s, 1, 1)) \o Lower(SubSeq(s, 2, Len(s)))

\* sub in s, for strings
Contains(sub, s) ==
    \E i \in 1..(Len(s) - Len(sub) + 1) : SubSeq(s, i, i + Len(sub) - 1) = sub

\* s.startswith(prefix)
StartsWith(s, prefix) ==
    Len(s) >= Len(prefix) /\ SubSeq(s, 1, Len(prefix)) = prefix

\* str.strip(): leading and trailing blanks removed
RECURSIVE Strip(_)
Strip(s) ==
    IF s = "" THEN ""
    ELSE IF SubSeq(s, 1, 1) = " " THEN Strip(SubSeq(s, 2, Len(s)))
    ELSE IF SubSeq(s, Len(s), Len(s)) = " " THEN Strip(SubSeq(s, 1, Len(s) - 1))
    ELSE s

\* s.split(',')[-1]: the text after the last comma, all of s when it has none
LastPart(s) ==
    LET commas == {i \in 1..Len(s) : SubSeq(s, i, i) = ","}
    IN  IF commas = {} THEN s
        ELSE LET last == CHOOSE i \in commas : \A j \in commas : j <= i
             IN  SubSeq(s, last + 1, Len(s))

\* s.replace('Z', '+00:00')
RECURSIVE ReplaceZ(_)
ReplaceZ(s) ==
    IF s = "" THEN ""
    ELSE (IF SubSeq(s, 1, 1) = "Z" THEN "+00:00" ELSE SubSeq(s, 1, 1))
         \o ReplaceZ(SubSeq(s, 2, Len(s)))

IsDigits(s) == \A i \in 1..Len(s) : IndexIn(SubSeq(s, i, i), DigitChars) > 0

\* the number a string of decimal digits denotes
RECURSIVE DigitsValue(_)
DigitsValue(s) ==
    IF s = "" THEN 0
    ELSE 10 * DigitsValue(SubSeq(s, 1, Len(s) - 1))
         + (IndexIn(SubSeq(s, Len(s), Len(s)), DigitChars) - 1)

\* f"{n:02d}" for n >= 0
Fmt02d(n) == IF n < 10 THEN "0" \o ToString(n) ELSE ToString(n)

\* f"{a:.2f}" for a float a >= 0 in hundredths
Fmt2f(a) == ToString(a \div 100) \o "." \o Fmt02d(a % 100)

\* a / b lies exactly on half a hundredth (b > 0): the digit Python prints there
\* depends on the binary double nearest to a / b, which is not modelled
HalfHundredth(a, b) == b > 0 /\ (200 * a) % (2 * b) = b

\* f"{a / b:.2f}" for floats a >= 0, b > 0 with ~HalfHundredth(a, b):
\* the quotient in hundredths, rounded to nearest
FmtRatio2f(a, b) ==
    LET h == (200 * a + b) \div (2 * b)
    IN  ToString(h \div 100) \o "." \o Fmt02d(h % 100)

\* truthiness of an Optional[List] or Optional[str]: neither None nor empty
Truthy(x) == ~x.is_none /\ Len(x.value) > 0

\* x in xs, for a list
InList(x, xs) == \E i \in 1..Len(xs) : xs[i] = x

\* sum of a sequence of integers
RECURSIVE SumSeq(_)
SumSeq(xs) == IF xs = <<>> THEN 0 ELSE Head(xs) + SumSeq(Tail(xs))

Min(a, b) == IF a <= b THEN a ELSE b
Max(a, b) == IF a >= b THEN a ELSE b

----------------------------------------------------------------------------
(* Python floats.  An amount is a decimal with two places, held as its     *)
(* number of hundredths; the float the program computes with is the IEEE   *)
(* 754 double nearest to it.  A double is a record [m, e] of value         *)
(* m / 2^e with 2^52 <= m < 2^53, the significand m held as a natural      *)
(* number in limbs of 15 bits, least significant first, <<>> being 0.      *)

\* the float of a whole number, in hundredths
Units(n) == 100 * n

Limb == 32768

\* 2^52 and 2^53 in limbs
TwoTo52 == <<0, 0, 0, 128>>
TwoTo53 == <<0, 0, 0, 256>>

\* a natural number below 2^31 as limbs
RECURSIVE BigOf(_)
BigOf(n) == IF n = 0 THEN <<>> ELSE << n % Limb >> \o BigOf(n \div Limb)

\* x * k + y + carry, for 0 <= k < Limb and 0 <= carry < Limb
RECURSIVE BigMulAdd(_, _, _, _)
BigMulAdd(x, k, y, carry) ==
    IF x = <<>> /\ y = <<>> THEN (IF carry = 0 THEN <<>> ELSE << carry >>)
    ELSE LET limb == (IF x = <<>> THEN 0 ELSE x[1] * k)
                     + (IF y = <<>> THEN 0 ELSE y[1]) + carry
         IN  << limb % Limb >>
             \o BigMulAdd(IF x = <<>> THEN <<>> ELSE Tail(x), k,
                          IF y = <<>> THEN <<>> ELSE Tail(y), limb \div Limb)

\* x * y, for y > 0
RECURSIVE BigMul(_, _)
BigMul(x, y) ==
    IF x = <<>> THEN <<>>
    ELSE BigMulAdd(y, x[1], << 0 >> \o BigMul(Tail(x), y), 0)

\* x * 2^n
BigShift(x, n) == [i \in 1..(n \div 15) |-> 0] \o BigMulAdd(x, 2 ^ (n % 15), <<>>, 0)

\* x >= y, for x and y without high zero limbs
RECURSIVE BigGE(_, _)
BigGE(x, y) ==
    IF Len(x) # Len(y) THEN Len(x) > Len(y)
    ELSE IF x = <<>> THEN TRUE
    ELSE IF x[Len(x)] # y[Len(y)] THEN x[Len(x)] > y[Len(y)]
    ELSE BigGE(SubSeq(x, 1, Len(x) - 1), SubSeq(y, 1, Len(y) - 1))

\* [q, r] with x = q * d + r and 0 <= r < d, for 0 < d < Limb; q has the
\* limbs of x
RECURSIVE BigDivSmall(_, _)
BigDivSmall(x, d) ==
    IF x = <<>> THEN [q |-> <<>>, r |-> 0]
    ELSE LET high == BigDivSmall(Tail(x), d)
         IN  [q |-> << (high.r * Limb + x[1]) \div d >> \o high.q,
              r |-> (high.r * Limb + x[1]) % d]

\* the number of bits of n, for 0 < n < 2^30
BitLen(n) == CHOOSE b \in 1..30 : 2 ^ (b - 1) <= n /\ n < 2 ^ b

\* the least e with h * 2^e / 100 >= 2^52, for h of len bits: 59 - len when
\* h * 2^(7 - len) >= 100, and one more otherwise
Exponent(h, len) ==
    IF (IF len <= 7 THEN h * 2 ^ (7 - len) >= 100 ELSE h >= 100 * 2 ^ (len - 7))
    THEN 59 - len ELSE 60 - len

\* the quotient qr.q, remainder qr.r, of a division by 100 rounded to
\* nearest, ties to even, as the significand of a double of exponent e
RoundHalfEven(qr, e) ==
    LET m == BigMulAdd(qr.q, 1, <<>>,
                       IF qr.r > 50 \/ (qr.r = 50 /\ qr.q[1] % 2 = 1) THEN 1 ELSE 0)
    IN  IF m = TwoTo53 THEN [m |-> TwoTo52, e |-> e - 1] ELSE [m |-> m, e |-> e]

\* the double nearest to h / 100, for 0 < h < 2^30 hundredths
DoubleAt(h, e) == RoundHalfEven(BigDivSmall(BigShift(BigOf(h), e), 100), e)
Double(h) == DoubleAt(h, Exponent(h, BitLen(h)))

\* left >= right, or left > right when ties are not included
BigReaches(left, right, ties) == BigGE(left, right) /\ (ties \/ left # right)

\* x / y >= k for doubles x > 0, y > 0 and k > 0, the quotient being the double
\* nearest to the exact one, ties to even: it is k or above exactly when the
\* exact quotient is at least half way from the double below k to k, or
\* beyond half way when the significand of k is odd.  The double below k is
\* k - 2^-(k.e), or k - 2^-(k.e + 1) when k is a power of two, so with j = 1,
\* or j = 2 for a power of two, the half way point is
\* (k.m * 2^j - 1) / 2^(k.e + j).
HalfWayReached(x, y, k, j) ==
    BigReaches(BigMulAdd(y.m, 1, BigShift(x.m, k.e + j + y.e - x.e), 0),
               BigMul(BigMulAdd(k.m, 2 ^ j, <<>>, 0), y.m),
               k.m[1] % 2 = 0)
FloatDivAtLeast(x, y, k) == HalfWayReached(x, y, k, IF k.m = TwoTo52 THEN 2 ELSE 1)

\* (a / b) >= k as the program evaluates it, for floats a >= 0, b > 0 and
\* k > 0 in hundredths.  When 100 * a # k * b the exact quotient is farther
\* than 1 / (100 * b) from k and the roundings move it by less than 2^-50 of
\* it, so the comparison is the exact one; on 100 * a = k * b it is computed
\* on the doubles.
RatioAtLeast(a, b, k) ==
    IF 100 * a = k * b THEN FloatDivAtLeast(Double(a), Double(b), Double(k))
    ELSE 100 * a > k * b

----------------------------------------------------------------------------
(* fraud_detection_engine.py *)

\* FraudDetectionEngine.__init__: the attributes it sets
FraudDetectionEngine ==
    [ HIGH_AMOUNT_MULTIPLIER     |-> 3,
      MEDIUM_AMOUNT_MULTIPLIER   |-> 2,
      HIGH_FREQUENCY_THRESHOLD   |-> 10,
      MEDIUM_FREQUENCY_THRESHOLD |-> 5,
      FRAUD_THRESHOLD            |-> 70,
      REVIEW_THRESHOLD           |-> 40 ]

\* what a rule returns: (risk_score, factors)
Rule(risk, factors) == [risk |-> risk, factors |-> factors]

\* the thresholds of the ratio are floats in hundredths: 0.1 is 10
_analyze_amount(self, t) ==
    IF t.avg_user_transaction_amount > 0
    THEN IF RatioAtLeast(t.amount, t.avg_user_transaction_amount,
                         Units(self.HIGH_AMOUNT_MULTIPLIER))
         THEN Rule(25, << "Amount spike: "
                          \o FmtRatio2f(t.amount, t.avg_user_transaction_amount)
                          \o "x user average ($" \o Fmt2f(t.amount) \o " vs $"
                          \o Fmt2f(t.avg_user_transaction_amount) \o ")" >>)
         ELSE IF RatioAtLeast(t.amount, t.avg_user_transaction_amount,
                              Units(self.MEDIUM_AMOUNT_MULTIPLIER))
         THEN Rule(15, << "Above-average amount: "
                          \o FmtRatio2f(t.amount, t.avg_user_transaction_amount)
                          \o "x user average" >>)
         ELSE IF ~RatioAtLeast(t.amount, t.avg_user_transaction_amount, 10)
         THEN Rule(5, << "Unusually small amount: "
                         \o FmtRatio2f(t.amount, t.avg_user_transaction_amount)
                         \o "x user average (possible test transaction)" >>)
         ELSE Rule(0, <<>>)
    ELSE IF t.amount > Units(1000)
         THEN Rule(10, << "High-value first transaction without user history" >>)
         ELSE Rule(0, <<>>)

\* _analyze_frequency with the two thresholds tested in the wrong order
_analyze_frequency_medium_first(self, t) ==
    IF t.transaction_frequency_24h >= self.MEDIUM_FREQUENCY_THRESHOLD
    THEN Rule(10, << "Elevated frequency: " \o ToString(t.transaction_frequency_24h)
                     \o " transactions in last 24 hours" >>)
    ELSE IF t.transaction_frequency_24h >= self.HIGH_FREQUENCY_THRESHOLD
    THEN Rule(20, << "Abnormal frequency: " \o ToString(t.transaction_frequency_24h)
                     \o " transactions in last 24 hours" >>)
    ELSE Rule(0, <<>>)

_analyze_frequency(self, t) ==
    IF t.transaction_frequency_24h >= self.HIGH_FREQUENCY_THRESHOLD
    THEN Rule(20, << "Abnormal frequency: " \o ToString(t.transaction_frequency_24h)
                     \o " transactions in last 24 hours" >>)
    ELSE IF t.transaction_frequency_24h >= self.MEDIUM_FREQUENCY_THRESHOLD
    THEN Rule(10, << "Elevated frequency: " \o ToString(t.transaction_frequency_24h)
                     \o " transactions in last 24 hours" >>)
    ELSE Rule(0, <<>>)

\* None when the location is empty, else the stripped text after the last comma
_extract_country(location) ==
    IF location = "" THEN NoneStr ELSE Some(Strip(LastPart(location)))

\* the cross-border part of the location rule (lines 173..184); the arrow
\* U+2192 of the three messages is written "->", since TLC's state files keep
\* one byte per character
CrossBorder(t) ==
    LET user_country     == _extract_country(t.user_location)
        merchant_country == _extract_country(t.merchant_location)
        route            == user_country.value \o " -> " \o merchant_country.value
    IN  IF Truthy(user_country) /\ Truthy(merchant_country)
           /\ user_country # merchant_country
        THEN IF t.user_international_history = Some(FALSE)
             THEN Rule(30, << "International transaction without history: " \o route >>)
             ELSE IF t.user_international_history.is_none
             THEN Rule(20, << "International transaction: " \o route
                              \o " (no history available)" >>)
             ELSE Rule(5, << "International transaction: " \o route >>)
        ELSE Rule(0, <<>>)

\* NewLocation testing "is not None" where the code tests truthiness
NewLocationIfPresent(t) ==
    IF ~t.user_location_history.is_none
       /\ ~InList(t.user_location, t.user_location_history.value)
    THEN Rule(15, << "New location detected: " \o t.user_location >>)
    ELSE Rule(0, <<>>)

\* the location-history part of the location rule (lines 187..190)
NewLocation(t) ==
    IF Truthy(t.user_location_history)
       /\ ~InList(t.user_location, t.user_location_history.value)
    THEN Rule(15, << "New location detected: " \o t.user_location >>)
    ELSE Rule(0, <<>>)

_analyze_location(self, t) ==
    Rule(CrossBorder(t).risk + NewLocation(t).risk,
         CrossBorder(t).factors \o NewLocation(t).factors)

\* _analyze_device testing "is not None" where the code tests truthiness
_analyze_device_if_present(self, t) ==
    IF ~t.user_device_history.is_none
    THEN IF ~InList(t.device_type, t.user_device_history.value)
         THEN Rule(12, << "New device type detected: " \o t.device_type >>)
         ELSE Rule(0, <<>>)
    ELSE Rule(3, << "No device history available" >>)

_analyze_device(self, t) ==
    IF Truthy(t.user_device_history)
    THEN IF ~InList(t.device_type, t.user_device_history.value)
         THEN Rule(12, << "New device type detected: " \o t.device_type >>)
         ELSE Rule(0, <<>>)
    ELSE Rule(3, << "No device history available" >>)

_is_suspicious_ip(ip_address) ==
    IF ip_address = "" THEN FALSE
    ELSE IF StartsWith(ip_address, "192.168.") \/ StartsWith(ip_address, "10.")
    THEN FALSE
    ELSE FALSE

\* _analyze_ip adding the 10 for a new address without appending its note
_analyze_ip_silent(self, t) ==
    LET history == IF Truthy(t.user_ip_history)
                   THEN IF ~InList(t.ip_address, t.user_ip_history.value)
                        THEN Rule(10, <<>>)
                        ELSE Rule(0, <<>>)
                   ELSE Rule(2, <<>>)
        suspicious == IF _is_suspicious_ip(t.ip_address)
                      THEN Rule(15, << "Suspicious IP address pattern detected: "
                                       \o t.ip_address >>)
                      ELSE Rule(0, <<>>)
    IN  Rule(history.risk + suspicious.risk, history.factors \o suspicious.factors)

_analyze_ip(self, t) ==
    LET history == IF Truthy(t.user_ip_history)
                   THEN IF ~InList(t.ip_address, t.user_ip_history.value)
                        THEN Rule(10, << "New IP address detected: " \o t.ip_address >>)
                        ELSE Rule(0, <<>>)
                   ELSE Rule(2, <<>>)
        suspicious == IF _is_suspicious_ip(t.ip_address)
                      THEN Rule(15, << "Suspicious IP address pattern detected: "
                                       \o t.ip_address >>)
                      ELSE Rule(0, <<>>)
    IN  Rule(history.risk + suspicious.risk, history.factors \o suspicious.factors)

_analyze_payment_method(self, t) ==
    LET payment_method == Lower(t.payment_method)
    IN  IF payment_method = "wallet" /\ t.amount > Units(5000)
        THEN Rule(5, << "High-value wallet transaction" >>)
        ELSE IF payment_method = "net banking" /\ t.amount < Units(100)
        THEN Rule(3, << "Unusually small net banking transaction" >>)
        ELSE Rule(0, <<>>)

high_risk_categories == << "gambling", "cryptocurrency", "adult", "cash advance" >>
low_risk_categories  == << "retail", "groceries", "restaurant", "utilities" >>

\* _analyze_merchant returning risk_score as it stands, without max(0, ...)
_analyze_merchant_unclamped(self, t) ==
    LET merchant_category_lower == Lower(t.merchant_category)
        high == IF \E i \in 1..Len(high_risk_categories) :
                      Contains(high_risk_categories[i], merchant_category_lower)
                THEN Rule(10, << "High-risk merchant category: " \o t.merchant_category >>)
                ELSE Rule(0, <<>>)
        low  == IF InList(merchant_category_lower, low_risk_categories)
                THEN Rule(-5, << "Known low-risk merchant category: "
                                 \o t.merchant_category >>)
                ELSE Rule(0, <<>>)
    IN  Rule(high.risk + low.risk, high.factors \o low.factors)

_analyze_merchant(self, t) ==
    LET merchant_category_lower == Lower(t.merchant_category)
        high == IF \E i \in 1..Len(high_risk_categories) :
                      Contains(high_risk_categories[i], merchant_category_lower)
                THEN Rule(10, << "High-risk merchant category: " \o t.merchant_category >>)
                ELSE Rule(0, <<>>)
        low  == IF InList(merchant_category_lower, low_risk_categories)
                THEN Rule(-5, << "Known low-risk merchant category: "
                                 \o t.merchant_category >>)
                ELSE Rule(0, <<>>)
    IN  Rule(Max(0, high.risk + low.risk), high.factors \o low.factors)

\* datetime.fromisoformat(s).hour for the forms YYYY-MM-DD,
\* YYYY-MM-DD?HH, YYYY-MM-DD?HH:MM and YYYY-MM-DD?HH:MM:SS, each time form with
\* an optional +HH:MM or -HH:MM offset; None (ValueError) for anything else.
\* Fractional seconds and the days of each month are not modelled.
IsoField(s, from, to, lo, hi) ==
    /\ Len(s) >= to
    /\ IsDigits(SubSeq(s, from, to))
    /\ DigitsValue(SubSeq(s, from, to)) >= lo
    /\ DigitsValue(SubSeq(s, from, to)) <= hi

IsoDateOk(s) ==
    /\ Len(s) >= 10
    /\ IsoField(s, 1, 4, 1, 9999)
    /\ SubSeq(s, 5, 5) = "-"
    /\ IsoField(s, 6, 7, 1, 12)
    /\ SubSeq(s, 8, 8) = "-"
    /\ IsoField(s, 9, 10, 1, 31)

IsoOffsetOk(o) ==
    /\ Len(o) = 6
    /\ SubSeq(o, 1, 1) \in {"+", "-"}
    /\ IsoField(o, 2, 3, 0, 23)
    /\ SubSeq(o, 4, 4) = ":"
    /\ IsoField(o, 5, 6, 0, 59)

\* the clock part HH[:MM[:SS]] without offset
IsoClockOk(c) ==
    \/ Len(c) = 2 /\ IsoField(c, 1, 2, 0, 23)
    \/ Len(c) = 5 /\ IsoField(c, 1, 2, 0, 23) /\ SubSeq(c, 3, 3) = ":"
                  /\ IsoField(c, 4, 5, 0, 59)
    \/ Len(c) = 8 /\ IsoField(c, 1, 2, 0, 23) /\ SubSeq(c, 3, 3) = ":"
                  /\ IsoField(c, 4, 5, 0, 59) /\ SubSeq(c, 6, 6) = ":"
                  /\ IsoField(c, 7, 8, 0, 59)

IsoTimeOk(tm) ==
    LET signs == {i \in 1..Len(tm) : SubSeq(tm, i, i) \in {"+", "-"}}
    IN  IF signs = {} THEN IsoClockOk(tm)
        ELSE LET at == CHOOSE i \in signs : \A j \in signs : i <= j
             IN  IsoClockOk(SubSeq(tm, 1, at - 1)) /\ IsoOffsetOk(SubSeq(tm, at, Len(tm)))

fromisoformat_hour(s) ==
    IF ~IsoDateOk(s) THEN NoneInt
    ELSE IF Len(s) = 10 THEN Some(0)
    ELSE IF Len(s) >= 13 /\ IsoTimeOk(SubSeq(s, 12, Len(s)))
    THEN Some(DigitsValue(SubSeq(s, 12, 13)))
    ELSE NoneInt

\* _analyze_time_pattern reading the hour off characters 12..13 without
\* validating the rest of the timestamp
_analyze_time_pattern_unvalidated(self, t) ==
    LET s    == ReplaceZ(t.transaction_time)
        hour == IF Len(s) >= 13 /\ IsDigits(SubSeq(s, 12, 13))
                THEN Some(DigitsValue(SubSeq(s, 12, 13))) ELSE NoneInt
    IN  IF ~hour.is_none /\ 2 <= hour.value /\ hour.value <= 5
        THEN Rule(5, << "Unusual transaction time: " \o Fmt02d(hour.value)
                        \o ":00 (off-peak hours)" >>)
        ELSE Rule(0, <<>>)

_analyze_time_pattern(self, t) ==
    LET hour == fromisoformat_hour(ReplaceZ(t.transaction_time))
    IN  IF ~hour.is_none /\ 2 <= hour.value /\ hour.value <= 5
        THEN Rule(5, << "Unusual transaction time: " \o Fmt02d(hour.value)
                        \o ":00 (off-peak hours)" >>)
        ELSE Rule(0, <<>>)

\* "\n".join(parts)
RECURSIVE JoinLines(_)
JoinLines(parts) ==
    IF parts = <<>> THEN ""
    ELSE IF Len(parts) = 1 THEN parts[1]
    ELSE parts[1] \o "\n" \o JoinLines(Tail(parts))

_generate_reasoning(self, risk_factors, risk_score, t) ==
    IF risk_factors = <<>>
    THEN "Transaction appears legitimate. Normal transaction pattern for user "
         \o t.user_id \o " with amount $" \o Fmt2f(t.amount) \o " via "
         \o t.payment_method \o "."
    ELSE JoinLines(
           << "Risk assessment for transaction " \o t.transaction_id \o ":",
              IF risk_score >= self.FRAUD_THRESHOLD
              THEN "HIGH RISK - Multiple suspicious indicators detected:"
              ELSE IF risk_score >= self.REVIEW_THRESHOLD
              THEN "MEDIUM RISK - Some unusual patterns detected:"
              ELSE "LOW RISK - Minor anomalies detected:" >>
           \o [i \in 1..Len(risk_factors) |-> ToString(i) \o ". " \o risk_factors[i]]
           \o << "\nOverall risk score: " \o ToString(risk_score) \o "/100" >>)

\* _recommend_action with > where the code has >=
_recommend_action_strict(self, risk_score) ==
    IF risk_score > self.FRAUD_THRESHOLD THEN "Block transaction immediately"
    ELSE IF risk_score > self.REVIEW_THRESHOLD THEN "Flag for review"
    ELSE "Allow transaction"

_recommend_action(self, risk_score) ==
    IF risk_score >= self.FRAUD_THRESHOLD THEN "Block transaction immediately"
    ELSE IF risk_score >= self.REVIEW_THRESHOLD THEN "Flag for review"
    ELSE "Allow transaction"

\* the eight rules in the order analyze_transaction runs them
RuleNames == << "amount", "frequency", "location", "device", "ip",
               "payment", "merchant", "time" >>

RunRule(self, name, t) ==
    CASE name = "amount"    -> _analyze_amount(self, t)
      [] name = "frequency" -> _analyze_frequency(self, t)
      [] name = "location"  -> _analyze_location(self, t)
      [] name = "device"    -> _analyze_device(self, t)
      [] name = "ip"        -> _analyze_ip(self, t)
      [] name = "payment"   -> _analyze_payment_method(self, t)
      [] name = "merchant"  -> _analyze_merchant(self, t)
      [] name = "time"      -> _analyze_time_pattern(self, t)

\* Accumulate putting a rule's notes in front of the notes gathered so far
AccumulatePrepending(acc, rule) ==
    [risk_score |-> acc.risk_score + rule.risk,
     risk_factors |-> rule.factors \o acc.risk_factors]

\* risk_score += r ; risk_factors.extend(f), on the call's own accumulators
Accumulate(acc, rule) ==
    [risk_score |-> acc.risk_score + rule.risk,
     risk_factors |-> acc.risk_factors \o rule.factors]

\* the accumulators after the first n rules (lines 58..99)
RECURSIVE AfterRules(_, _, _)
AfterRules(self, t, n) ==
    IF n = 0 THEN [risk_score |-> 0, risk_factors |-> <<>>]
    ELSE Accumulate(AfterRules(self, t, n - 1), RunRule(self, RuleNames[n], t))

\* the score left uncapped
CapScoreMissing(raw) == raw

\* Cap risk score at 100
CapScore(raw) == Min(100, raw)

FraudStatus(self, risk_score) ==
    IF risk_score >= self.FRAUD_THRESHOLD THEN "Fraudulent" ELSE "Legitimate"

\* lines 101..120: from the accumulated score and factors to the result dictionary
BuildResult(self, t, acc) ==
    LET risk_score == CapScore(acc.risk_score)
    IN  [ transaction_id     |-> t.transaction_id,
          fraud_status       |-> FraudStatus(self, risk_score),
          risk_score         |-> risk_score,
          risk_factors       |-> acc.risk_factors,
          reasoning          |-> _generate_reasoning(self, acc.risk_factors, risk_score, t),
          recommended_action |-> _recommend_action(self, risk_score) ]

analyze_transaction(self, t) ==
    BuildResult(self, t, AfterRules(self, t, Len(RuleNames)))

\* the locals amount_risk .. time_risk of analyze_transaction at its return
Locals(self, t) ==
    [ amount_risk    |-> _analyze_amount(self, t).risk,
      frequency_risk |-> _analyze_frequency(self, t).risk,
      location_risk  |-> _analyze_location(self, t).risk,
      device_risk    |-> _analyze_device(self, t).risk,
      ip_risk        |-> _analyze_ip(self, t).risk,
      payment_risk   |-> _analyze_payment_method(self, t).risk,
      merchant_risk  |-> _analyze_merchant(self, t).risk,
      time_risk      |-> _analyze_time_pattern(self, t).risk,
      amount_factors    |-> _analyze_amount(self, t).factors,
      frequency_factors |-> _analyze_frequency(self, t).factors,
      location_factors  |-> _analyze_location(self, t).factors,
      device_factors    |-> _analyze_device(self, t).factors,
      ip_factors        |-> _analyze_ip(self, t).factors,
      payment_factors   |-> _analyze_payment_method(self, t).factors,
      merchant_factors  |-> _analyze_merchant(self, t).factors,
      time_factors      |-> _analyze_time_pattern(self, t).factors ]

----------------------------------------------------------------------------
(* The transactions the engine is called with *)

\* the documented transactions of example_usage.py
Example1 ==
    [ transaction_id |-> "TXN001", user_id |-> "USER123", amount |-> Units(5000),
      currency |-> "USD", transaction_time |-> "2024-01-15T14:30:00Z",
      merchant_name |-> "Online Store XYZ", merchant_category |-> "Electronics",
      payment_method |-> "Card", user_location |-> "New York, USA",
      merchant_location |-> "Moscow, Russia", device_type |-> "mobile",
      ip_address |-> "192.168.1.100", transaction_frequency_24h |-> 12,
      avg_user_transaction_amount |-> Units(150),
      user_device_history |-> Some(<< "web" >>),
      user_location_history |-> Some(<< "New York, USA", "Boston, USA" >>),
      user_ip_history |-> Some(<< "192.168.1.50" >>),
      user_international_history |-> Some(FALSE) ]

Example2 ==
    [ transaction_id |-> "TXN002", user_id |-> "USER456", amount |-> 4550,
      currency |-> "USD", transaction_time |-> "2024-01-15T12:15:00Z",
      merchant_name |-> "Local Grocery Store", merchant_category |-> "Groceries",
      payment_method |-> "UPI", user_location |-> "San Francisco, USA",
      merchant_location |-> "San Francisco, USA", device_type |-> "mobile",
      ip_address |-> "192.168.1.200", transaction_frequency_24h |-> 2,
      avg_user_transaction_amount |-> Units(50),
      user_device_history |-> Some(<< "mobile", "web" >>),
      user_location_history |-> Some(<< "San Francisco, USA" >>),
      user_ip_history |-> Some(<< "192.168.1.200", "192.168.1.201" >>),
      user_international_history |-> Some(FALSE) ]

Example3 ==
    [ transaction_id |-> "TXN003", user_id |-> "USER789", amount |-> Units(1200),
      currency |-> "USD", transaction_time |-> "2024-01-15T03:45:00Z",
      merchant_name |-> "Online Casino", merchant_category |-> "Gambling",
      payment_method |-> "Net Banking", user_location |-> "Los Angeles, USA",
      merchant_location |-> "Las Vegas, USA", device_type |-> "web",
      ip_address |-> "192.168.1.300", transaction_frequency_24h |-> 6,
      avg_user_transaction_amount |-> Units(200),
      user_device_history |-> Some(<< "mobile" >>),
      user_location_history |-> Some(<< "Los Angeles, USA" >>),
      user_ip_history |-> Some(<< "192.168.1.250" >>),
      user_international_history |-> Some(FALSE) ]

\* Example 1 with a location history that does not hold the user's location
ScenarioA ==
    [Example1 EXCEPT !.user_location_history = Some(<< "Boston, USA" >>)]

\* the Transaction _dict_to_transaction builds from an object with no known key
DefaultTransaction ==
    [ transaction_id |-> "", user_id |-> "", amount |-> 0,
      currency |-> "USD", transaction_time |-> "",
      merchant_name |-> "", merchant_category |-> "",
      payment_method |-> "", user_location |-> "",
      merchant_location |-> "", device_type |-> "",
      ip_address |-> "", transaction_frequency_24h |-> 0,
      avg_user_transaction_amount |-> 0,
      user_device_history |-> NoneList,
      user_location_history |-> NoneList,
      user_ip_history |-> NoneList,
      user_international_history |-> NoneBool ]

BaseTransactions == {Example1, Example2, Example3, ScenarioA, DefaultTransaction}

\* the values each rule's fields range over
Amounts ==
    {Units(u) : u \in {0, 5, 15, 99, 100, 300, 449, 450, 1000, 1001, 1200, 5000, 5001}}
Averages == {Units(u) : u \in {0, 150, 200}}

\* amounts and averages with hundredths, on and next to the band boundaries:
\* 0.30 and 0.10, 120.60 and 40.20, 4.35 and 1.45, 0.09 and 0.03 (three times),
\* 0.20 and 0.10, 80.40 and 40.20 (twice), 0.01 and 0.10, 10.10 and 101.00,
\* 0.03 and 0.30 (a tenth), then 2.99, 3.01 and 1.99 to 1.00 and Example 2's
\* 45.50 to 50.00
FractionalPairs ==
    {<<30, 10>>, <<12060, 4020>>, <<435, 145>>, <<9, 3>>,
     <<20, 10>>, <<8040, 4020>>, <<1, 10>>, <<1010, 10100>>, <<3, 30>>,
     <<299, 100>>, <<301, 100>>, <<199, 100>>, <<4550, 5000>>}
Frequencies == {0, 4, 5, 6, 9, 10, 12}
UserLocations == {"New York, USA", "Los Angeles, USA", "Paris", "Lyon, ", ""}
MerchantLocations == {"Moscow, Russia", "Las Vegas, USA", "Nice,France", ""}
InternationalHistories == {Some(TRUE), Some(FALSE), NoneBool}
LocationHistories ==
    {NoneList, Some(<<>>), Some(<< "Los Angeles, USA" >>),
     Some(<< "New York, USA", "Boston, USA" >>)}
DeviceTypes == {"mobile", "web"}
DeviceHistories ==
    {NoneList, Some(<<>>), Some(<< "web" >>), Some(<< "mobile", "web" >>)}
IpAddresses == {"192.168.1.100", "10.0.0.7", "203.0.113.9", ""}
IpHistories ==
    {NoneList, Some(<<>>), Some(<< "192.168.1.50" >>),
     Some(<< "192.168.1.100", "203.0.113.9" >>)}
PaymentMethods == {"Card", "UPI", "Wallet", "WALLET", "Net Banking", "net banking"}
MerchantCategories ==
    {"Electronics", "Gambling", "Online Gambling", "Groceries", "retail",
     "Retail Cryptocurrency", "Utilities", ""}
TransactionTimes ==
    {"2024-01-15T14:30:00Z", "2024-01-15T03:45:00Z", "2024-01-15T02:00:00",
     "2024-01-15T05:59:59+05:30", "2024-01-15T06:00:00Z", "2024-01-15",
     "2024-13-45T03:00:00Z", "03:45", "not-a-time", ""}

\* the transactions that differ from a base transaction in the fields of one rule
AmountSlice(b) ==
    {[b EXCEPT !.amount = p[1], !.avg_user_transaction_amount = p[2]] :
        p \in {q \in (Amounts \X Averages) \cup FractionalPairs :
                  ~HalfHundredth(q[1], q[2])}}
FrequencySlice(b) ==
    {[b EXCEPT !.transaction_frequency_24h = f] : f \in Frequencies}
LocationSlice(b) ==
    {[b EXCEPT !.user_location = u, !.merchant_location = m,
               !.user_international_history = i, !.user_location_history = h] :
        u \in UserLocations, m \in MerchantLocations,
        i \in InternationalHistories, h \in LocationHistories}
DeviceSlice(b) ==
    {[b EXCEPT !.device_type = d, !.user_device_history = h] :
        d \in DeviceTypes, h \in DeviceHistories}
IpSlice(b) ==
    {[b EXCEPT !.ip_address = a, !.user_ip_history = h] :
        a \in IpAddresses, h \in IpHistories}
PaymentSlice(b) ==
    {[b EXCEPT !.payment_method = p, !.amount = a] :
        p \in PaymentMethods,
        a \in {x \in {9999, Units(100), Units(5000), 500001} :
                  ~HalfHundredth(x, b.avg_user_transaction_amount)}}
MerchantSlice(b) ==
    {[b EXCEPT !.merchant_category = c] : c \in MerchantCategories}
TimeSlice(b) ==
    {[b EXCEPT !.transaction_time = tm] : tm \in TransactionTimes}

BoundaryTransactions ==
    UNION {AmountSlice(b) \cup FrequencySlice(b) \cup LocationSlice(b)
           \cup DeviceSlice(b) \cup IpSlice(b) \cup PaymentSlice(b)
           \cup MerchantSlice(b) \cup TimeSlice(b) : b \in BaseTransactions}

\* every combination of a few values of each rule's fields
CoreTransactions ==
    {[DefaultTransaction EXCEPT
        !.transaction_id = "TXN000", !.user_id = "USER000",
        !.amount = a[1], !.avg_user_transaction_amount = a[2],
        !.transaction_frequency_24h = f,
        !.user_location = l[1], !.merchant_location = l[2],
        !.user_international_history = l[3], !.user_location_history = l[4],
        !.device_type = "mobile", !.user_device_history = d,
        !.ip_address = "192.168.1.100", !.user_ip_history = i,
        !.payment_method = p, !.merchant_category = c, !.transaction_time = tm] :
        a \in {<<Units(50), Units(150)>>, <<Units(330), Units(150)>>,
               <<Units(5001), Units(150)>>, <<Units(1200), 0>>},
        f \in {2, 6, 12},
        l \in {<<"New York, USA", "Moscow, Russia", Some(FALSE), Some(<< "Boston, USA" >>)>>,
               <<"New York, USA", "Moscow, Russia", NoneBool, NoneList>>,
               <<"New York, USA", "Moscow, Russia", Some(TRUE), Some(<<>>)>>,
               <<"Los Angeles, USA", "Las Vegas, USA", Some(FALSE),
                 Some(<< "Los Angeles, USA" >>)>>},
        d \in {NoneList, Some(<< "web" >>), Some(<< "mobile", "web" >>)},
        i \in {NoneList, Some(<< "192.168.1.50" >>), Some(<< "192.168.1.100" >>)},
        p \in {"Card", "Wallet", "Net Banking"},
        c \in {"Electronics", "Gambling", "Groceries"},
        tm \in {"2024-01-15T14:30:00Z", "2024-01-15T03:45:00Z", "not-a-time"}}

Transactions == CoreTransactions \cup BoundaryTransactions

----------------------------------------------------------------------------
(* A direct call of FraudDetectionEngine.analyze_transaction *)

NoFrame == Locals(FraudDetectionEngine, DefaultTransaction)
NoResult ==
    [ transaction_id |-> "", fraud_status |-> "", risk_score |-> 0,
      risk_factors |-> <<>>, reasoning |-> "", recommended_action |-> "" ]

InitEngine ==
    /\ engine = FraudDetectionEngine
    /\ pc = "call"
    /\ transaction \in Transactions
    /\ frame = NoFrame
    /\ result = NoResult

AnalyzeTransaction ==
    /\ pc = "call"
    /\ pc' = "return"
    /\ frame' = Locals(engine, transaction)
    /\ result' = analyze_transaction(engine, transaction)
    /\ UNCHANGED <<engine, transaction, th_pc, th_txn, th_risk_score,
                   th_risk_factors, th_result, request, response>>


----------------------------------------------------------------------------
(* Concurrent calls of analyze_transaction on the one engine (app.py runs  *)
(* threaded=True with the module-level processor).  Each thread's call     *)
(* runs the eight rules one step at a time; th_pc counts the rules run, 8  *)
(* is "all rules run", 9 is "returned".                                    *)

NumThreads == 2
Threads == 1..NumThreads

\* the transactions the concurrent calls are made with
ThreadTransactions == {Example1, Example2, Example3}

\* risk_score kept on the shared engine: every call in progress sees the addition
AddRiskShared(scores, t, risk) ==
    [u \in DOMAIN scores |-> IF th_pc[u] \in 0..8 THEN scores[u] + risk ELSE scores[u]]

\* risk_score += <rule>_risk : risk_score is a local of thread t's call
AddRisk(scores, t, risk) == [scores EXCEPT ![t] = @ + risk]

\* risk_factors.extend(<rule>_factors) : risk_factors is a local of thread t's call
ExtendFactors(factors, t, more) == [factors EXCEPT ![t] = @ \o more]

\* thread t runs rule number n and adds what it returns (one of lines 61..99)
RuleStep(t, n) ==
    /\ th_pc[t] = n - 1
    /\ LET rule == RunRule(engine, RuleNames[n], th_txn[t])
       IN  /\ th_risk_score' = AddRisk(th_risk_score, t, rule.risk)
           /\ th_risk_factors' = ExtendFactors(th_risk_factors, t, rule.factors)
    /\ th_pc' = [th_pc EXCEPT ![t] = n]
    /\ UNCHANGED <<engine, th_txn, th_result, pc, transaction, frame, result,
                   request, response>>

StepAmount(t)    == RuleStep(t, 1)
StepFrequency(t) == RuleStep(t, 2)
StepLocation(t)  == RuleStep(t, 3)
StepDevice(t)    == RuleStep(t, 4)
StepIp(t)        == RuleStep(t, 5)
StepPayment(t)   == RuleStep(t, 6)
StepMerchant(t)  == RuleStep(t, 7)
StepTime(t)      == RuleStep(t, 8)

\* thread t caps the score, classifies and returns (lines 101..120)
StepReturn(t) ==
    /\ th_pc[t] = 8
    /\ th_result' = [th_result EXCEPT ![t] =
            BuildResult(engine, th_txn[t],
                        [risk_score |-> th_risk_score[t],
                         risk_factors |-> th_risk_factors[t]])]
    /\ th_pc' = [th_pc EXCEPT ![t] = 9]
    /\ UNCHANGED <<engine, th_txn, th_risk_score, th_risk_factors, pc, transaction,
                   frame, result, request, response>>

----------------------------------------------------------------------------
(* transaction_processor.py and app.py *)

\* a parsed JSON value: absent key, null, number (held in hundredths), string,
\* boolean, array of strings
JAbsent  == [type |-> "absent", num |-> 0, str |-> "", bool |-> FALSE, list |-> <<>>]
JNull    == [type |-> "null",   num |-> 0, str |-> "", bool |-> FALSE, list |-> <<>>]
JNum(n)  == [type |-> "number", num |-> n, str |-> "", bool |-> FALSE, list |-> <<>>]
JStr(x)  == [type |-> "string", num |-> 0, str |-> x,  bool |-> FALSE, list |-> <<>>]
JBool(b) == [type |-> "bool",   num |-> 0, str |-> "", bool |-> b,     list |-> <<>>]
JArr(xs) == [type |-> "array",  num |-> 0, str |-> "", bool |-> FALSE, list |-> xs]

\* the keys _dict_to_transaction reads
Keys ==
    { "transaction_id", "user_id", "amount", "currency", "transaction_time",
      "merchant_name", "merchant_category", "payment_method", "user_location",
      "merchant_location", "device_type", "ip_address",
      "transaction_frequency_24h", "avg_user_transaction_amount",
      "user_device_history", "user_location_history", "user_ip_history",
      "user_international_history" }

\* data.get(key, default)
Get(data, key, default) ==
    IF data[key].type = "absent" THEN default ELSE data[key]

\* what a conversion or a call gives: a value, or the exception it raised
Ok(v)         == [raised |-> "", value |-> v]
Raised(e, v0) == [raised |-> e, value |-> v0]

\* a decimal literal as float() and int() read it: blanks stripped, digits only
\* (signs, fractions and exponents are not among the modelled inputs)
IsNumeral(x) == Strip(x) # "" /\ IsDigits(Strip(x))

\* float(v), in hundredths
float(v) ==
    CASE v.type = "number" -> Ok(v.num)
      [] v.type = "bool"   -> Ok(IF v.bool THEN Units(1) ELSE 0)
      [] v.type = "string" -> IF IsNumeral(v.str)
                              THEN Ok(Units(DigitsValue(Strip(v.str))))
                              ELSE Raised("ValueError", 0)
      [] OTHER             -> Raised("TypeError", 0)

\* int(v): a number is truncated to its whole part
int(v) ==
    CASE v.type = "number" -> Ok(v.num \div 100)
      [] v.type = "bool"   -> Ok(IF v.bool THEN 1 ELSE 0)
      [] v.type = "string" -> IF IsNumeral(v.str) THEN Ok(DigitsValue(Strip(v.str)))
                              ELSE Raised("ValueError", 0)
      [] OTHER             -> Raised("TypeError", 0)

\* data.get(key) for a history: a JSON array, or None
OptionalList(v) == IF v.type = "array" THEN Some(v.list) ELSE NoneList

\* data.get(key) for user_international_history: a JSON boolean, or None
OptionalBool(v) == IF v.type = "bool" THEN Some(v.bool) ELSE NoneBool

\* a request record: a JSON object (its keys), or a JSON value that is no object
Object(fields) == [kind |-> "object", fields |-> fields]
EmptyFields    == [k \in Keys |-> JAbsent]
NonObject(k)   == [kind |-> k, fields |-> EmptyFields]

_dict_to_transaction(data) ==
    IF data.kind # "object" THEN Raised("AttributeError", DefaultTransaction)
    ELSE LET d == data.fields
             amount == float(Get(d, "amount", JNum(0)))
             frequency == int(Get(d, "transaction_frequency_24h", JNum(0)))
             average == float(Get(d, "avg_user_transaction_amount", JNum(0)))
             t == [ transaction_id    |-> Get(d, "transaction_id", JStr("")).str,
                    user_id           |-> Get(d, "user_id", JStr("")).str,
                    amount            |-> amount.value,
                    currency          |-> Get(d, "currency", JStr("USD")).str,
                    transaction_time  |-> Get(d, "transaction_time", JStr("")).str,
                    merchant_name     |-> Get(d, "merchant_name", JStr("")).str,
                    merchant_category |-> Get(d, "merchant_category", JStr("")).str,
                    payment_method    |-> Get(d, "payment_method", JStr("")).str,
                    user_location     |-> Get(d, "user_location", JStr("")).str,
                    merchant_location |-> Get(d, "merchant_location", JStr("")).str,
                    device_type       |-> Get(d, "device_type", JStr("")).str,
                    ip_address        |-> Get(d, "ip_address", JStr("")).str,
                    transaction_frequency_24h   |-> frequency.value,
                    avg_user_transaction_amount |-> average.value,
                    user_device_history   |-> OptionalList(d["user_device_history"]),
                    user_location_history |-> OptionalList(d["user_location_history"]),
                    user_ip_history       |-> OptionalList(d["user_ip_history"]),
                    user_international_history |->
                        OptionalBool(d["user_international_history"]) ]
         IN  IF amount.raised # "" THEN Raised(amount.raised, DefaultTransaction)
             ELSE IF frequency.raised # ""
             THEN Raised(frequency.raised, DefaultTransaction)
             ELSE IF average.raised # "" THEN Raised(average.raised, DefaultTransaction)
             ELSE Ok(t)

\* TransactionProcessor.process_transaction
process_transaction(self, transaction_data) ==
    LET t == _dict_to_transaction(transaction_data)
    IN  IF t.raised # "" THEN Raised(t.raised, NoResult)
        ELSE Ok(analyze_transaction(self, t.value))

\* TransactionProcessor.process_transactions_batch: the first item that raises
\* ends the loop and the call
RECURSIVE process_transactions_batch(_, _)
process_transactions_batch(self, transactions) ==
    IF transactions = <<>> THEN Ok(<<>>)
    ELSE LET head == process_transaction(self, Head(transactions))
         IN  IF head.raised # "" THEN Raised(head.raised, <<>>)
             ELSE LET rest == process_transactions_batch(self, Tail(transactions))
                  IN  IF rest.raised # "" THEN Raised(rest.raised, <<>>)
                      ELSE Ok(<<head.value>> \o rest.value)

\* a JSON request body: null, a number, an object or an array of records
BodyNull       == [kind |-> "null",   num |-> 0, record |-> NonObject("null"), items |-> <<>>]
BodyNum(n)     == [kind |-> "number", num |-> n, record |-> NonObject("number"), items |-> <<>>]
BodyObject(r)  == [kind |-> "object", num |-> 0, record |-> r, items |-> <<>>]
BodyArray(xs)  == [kind |-> "array",  num |-> 0, record |-> NonObject("array"), items |-> xs]

\* Python truthiness of the body: None, 0, {} and [] are falsy
BodyTruthy(b) ==
    CASE b.kind = "null"   -> FALSE
      [] b.kind = "number" -> b.num # 0
      [] b.kind = "object" -> \E k \in Keys : b.record.fields[k].type # "absent"
      [] b.kind = "array"  -> b.items # <<>>

\* the record process_transaction is handed for a body
BodyRecord(b) == IF b.kind = "object" THEN b.record ELSE NonObject(b.kind)

\* a / b of Python, kept exact as a fraction
Fraction(a, b) == [num |-> a, den |-> b]

\* a response: the status code and the keys of the JSON body
Response(status, error, res, results, total, fraudulent, legitimate, average) ==
    [ status |-> status, error |-> error, result |-> res, results |-> results,
      total |-> total, fraudulent |-> fraudulent, legitimate |-> legitimate,
      average_risk_score |-> average ]
ErrorResponse(status, error) ==
    Response(status, error, NoResult, <<>>, 0, 0, 0, Fraction(0, 1))
NoResponse == ErrorResponse(0, "")

\* sum(1 for r in results if r["fraud_status"] == status)
CountStatus(results, status) ==
    Cardinality({i \in 1..Len(results) : results[i].fraud_status = status})

\* sum(r["risk_score"] for r in results)
SumScores(results) == SumSeq([i \in 1..Len(results) |-> results[i].risk_score])

\* app.analyze_transaction: POST /api/analyze
analyze_transaction_handler(self, body) ==
    IF ~BodyTruthy(body) THEN ErrorResponse(400, "No transaction data provided")
    ELSE LET r == process_transaction(self, BodyRecord(body))
         IN  IF r.raised # "" THEN ErrorResponse(500, "Processing error")
             ELSE Response(200, "", r.value, <<>>, 0, 0, 0, Fraction(0, 1))

\* app.analyze_batch: POST /api/analyze-batch
analyze_batch(self, body) ==
    IF ~BodyTruthy(body) THEN ErrorResponse(400, "No transaction data provided")
    ELSE IF body.kind # "array"
    THEN ErrorResponse(400, "Expected array of transactions")
    ELSE LET r == process_transactions_batch(self, body.items)
             results == r.value
         IN  IF r.raised # "" THEN ErrorResponse(500, "Processing error")
             ELSE Response(200, "", NoResult, results, Len(results),
                           CountStatus(results, "Fraudulent"),
                           CountStatus(results, "Legitimate"),
                           IF results # <<>>
                           THEN Fraction(SumScores(results), Len(results))
                           ELSE Fraction(0, 1))

----------------------------------------------------------------------------
(* The requests the server is sent *)

\* the JSON object a client sends for a transaction
JsonOf(t) ==
    Object(
      [k \in Keys |->
        CASE k \in {"amount", "avg_user_transaction_amount"} -> JNum(t[k])
          [] k = "transaction_frequency_24h" -> JNum(Units(t[k]))
          [] k \in {"user_device_history", "user_location_history", "user_ip_history"}
               -> IF t[k].is_none THEN JAbsent ELSE JArr(t[k].value)
          [] k = "user_international_history"
               -> IF t[k].is_none THEN JAbsent ELSE JBool(t[k].value)
          [] OTHER -> JStr(t[k])])

\* record r with the value of one key replaced
WithKey(r, k, v) == Object([r.fields EXCEPT ![k] = v])

NumericKeys == {"amount", "transaction_frequency_24h", "avg_user_transaction_amount"}

\* what a client may send where a number is expected
NumericValues ==
    {JNum(Units(7)), JNum(750), JStr("5000"), JStr(" 12 "), JStr("abc"), JStr(""), JNull, JAbsent,
     JArr(<< "1" >>), JBool(TRUE)}

ExampleRecords == {JsonOf(Example1), JsonOf(Example2), JsonOf(Example3)}

\* the record is read into a transaction whose amount ratio Python prints
\* on half a hundredth
PrintsHalfHundredth(r) ==
    LET t == _dict_to_transaction(r)
    IN  t.raised = "" /\ HalfHundredth(t.value.amount, t.value.avg_user_transaction_amount)

SingleRecords ==
    ExampleRecords \cup {Object(EmptyFields)}
    \cup {r \in {WithKey(e, k, v) :
                    e \in ExampleRecords, k \in NumericKeys, v \in NumericValues} :
            ~PrintsHalfHundredth(r)}

SingleBodies ==
    {BodyObject(r) : r \in SingleRecords}
    \cup {BodyNull, BodyNum(0), BodyNum(5), BodyArray(<<>>),
          BodyArray(<< JsonOf(Example1) >>)}

MaxBatch == 3

\* the items of the batches: three valid records, a record whose amount is no
\* number, a record whose frequency is null, and an item that is no object
BatchItems ==
    ExampleRecords
    \cup {WithKey(JsonOf(Example3), "amount", JStr("abc")),
          WithKey(JsonOf(Example2), "transaction_frequency_24h", JNull),
          NonObject("number")}

BatchBodies ==
    {BodyArray(xs) : xs \in UNION {[1..n -> BatchItems] : n \in 0..MaxBatch}}
    \cup {BodyNull, BodyNum(5), BodyObject(JsonOf(Example1)), BodyObject(Object(EmptyFields))}

Requests ==
    {[endpoint |-> "/api/analyze", body |-> b] : b \in SingleBodies}
    \cup {[endpoint |-> "/api/analyze-batch", body |-> b] : b \in BatchBodies}

NoRequest == [endpoint |-> "", body |-> BodyNull]

\* POST /api/analyze is served
HandleAnalyze ==
    /\ request.endpoint = "/api/analyze"
    /\ response = NoResponse
    /\ response' = analyze_transaction_handler(engine, request.body)
    /\ UNCHANGED <<engine, pc, transaction, frame, result, th_pc, th_txn,
                   th_risk_score, th_risk_factors, th_result, request>>

\* POST /api/analyze-batch is served
HandleAnalyzeBatch ==
    /\ request.endpoint = "/api/analyze-batch"
    /\ response = NoResponse
    /\ response' = analyze_batch(engine, request.body)
    /\ UNCHANGED <<engine, pc, transaction, frame, result, th_pc, th_txn,
                   th_risk_score, th_risk_factors, th_result, request>>

----------------------------------------------------------------------------
(* Specifications *)

\* no direct call, no thread, no request
IdleCall ==
    /\ pc = "idle"
    /\ transaction = DefaultTransaction
    /\ frame = NoFrame
    /\ result = NoResult
IdleThreads ==
    /\ th_pc = [t \in Threads |-> -1]
    /\ th_txn = [t \in Threads |-> DefaultTransaction]
    /\ th_risk_score = [t \in Threads |-> 0]
    /\ th_risk_factors = [t \in Threads |-> <<>>]
    /\ th_result = [t \in Threads |-> NoResult]
IdleApp ==
    /\ request = NoRequest
    /\ response = NoResponse

\* Spec: one direct call of analyze_transaction, on any of Transactions
Init == InitEngine /\ IdleThreads /\ IdleApp
Next == AnalyzeTransaction
Spec == Init /\ [][Next]_vars

\* SpecThreads: NumThreads concurrent calls on the shared engine, interleaved
\* at the rule steps
InitThreads ==
    /\ engine = FraudDetectionEngine
    /\ IdleCall
    /\ IdleApp
    /\ th_pc = [t \in Threads |-> 0]
    /\ th_txn \in [Threads -> ThreadTransactions]
    /\ th_risk_score = [t \in Threads |-> 0]
    /\ th_risk_factors = [t \in Threads |-> <<>>]
    /\ th_result = [t \in Threads |-> NoResult]
NextThreads ==
    \E t \in Threads :
        \/ StepAmount(t)
        \/ StepFrequency(t)
        \/ StepLocation(t)
        \/ StepDevice(t)
        \/ StepIp(t)
        \/ StepPayment(t)
        \/ StepMerchant(t)
        \/ StepTime(t)
        \/ StepReturn(t)
SpecThreads == InitThreads /\ [][NextThreads]_vars

\* SpecApp: one request to one of the two POST endpoints
InitApp ==
    /\ engine = FraudDetectionEngine
    /\ IdleCall
    /\ IdleThreads
    /\ request \in Requests
    /\ response = NoResponse
NextApp == HandleAnalyze \/ HandleAnalyzeBatch
SpecApp == InitApp /\ [][NextApp]_vars

----------------------------------------------------------------------------
(* Properties *)

\* the raw sum of the eight contributions of the call that returned
FrameSum ==
    frame.amount_risk + frame.frequency_risk + frame.location_risk
    + frame.device_risk + frame.ip_risk + frame.payment_risk
    + frame.merchant_risk + frame.time_risk

\* C1: every result of analyze_transaction has an integer risk_score with
\* 0 <= risk_score <= 100, whatever the raw sum of the eight contributions.
C1_ScoreInRange ==
    pc = "return" => result.risk_score \in 0..100

\* C1 witness: a call returned whose raw sum exceeds 100 and whose score is 100.
C1_Witness ==
    pc = "return" /\ FrameSum > 100 /\ result.risk_score = 100

\* C2: fraud_status and recommended_action are the step function of risk_score
\* with steps at 70 and 40, and the status is Fraudulent iff the action is Block.
C2_StatusActionStep ==
    pc = "return" =>
        /\ <<result.fraud_status, result.recommended_action>> =
              IF result.risk_score >= 70
              THEN <<"Fraudulent", "Block transaction immediately">>
              ELSE IF result.risk_score >= 40
              THEN <<"Legitimate", "Flag for review">>
              ELSE <<"Legitimate", "Allow transaction">>
        /\ (result.fraud_status = "Fraudulent"
              <=> result.recommended_action = "Block transaction immediately")

\* C2 witness: a call returned with a score exactly on the review threshold.
C2_Witness ==
    pc = "return" /\ result.risk_score = 40
    /\ result.recommended_action = "Flag for review"

\* an item of a batch on which process_transaction raises
ItemFails(item) == process_transaction(engine, item).raised # ""

\* the results of the items of a batch that do not raise, in input order
RECURSIVE ResultsOfGoodItems(_)
ResultsOfGoodItems(items) ==
    IF items = <<>> THEN <<>>
    ELSE (IF ItemFails(Head(items)) THEN <<>>
          ELSE << process_transaction(engine, Head(items)).value >>)
         \o ResultsOfGoodItems(Tail(items))

BatchServed ==
    /\ request.endpoint = "/api/analyze-batch"
    /\ response # NoResponse

\* C3: a batch in which one item fails is not aborted: the response still
\* carries the results of the other items.
C3_BatchIsolatesItems ==
    ( /\ BatchServed
      /\ request.body.kind = "array"
      /\ \E i \in 1..Len(request.body.items) : ItemFails(request.body.items[i])
      /\ \E i \in 1..Len(request.body.items) : ~ItemFails(request.body.items[i]) )
    => /\ response.status = 200
       /\ response.results = ResultsOfGoodItems(request.body.items)

\* C4: a record that violates the structural shape (no object, or a value the
\* adapter cannot read as a number) is answered by /api/analyze with a client
\* error (4xx), not with the generic "Processing error" (5xx).
C4_ShapeViolationIsClientError ==
    ( /\ request.endpoint = "/api/analyze"
      /\ response # NoResponse
      /\ _dict_to_transaction(BodyRecord(request.body)).raised # "" )
    => /\ response.status \in 400..499
       /\ response.error # "Processing error"

\* C5: concurrent calls on the shared engine do not interfere: at every
\* interleaving each call's accumulators hold exactly what a sequential run of
\* its own rules gives, each call returns the sequential result of its own
\* transaction, and the engine's configuration is as __init__ left it.
C5_ThreadsIsolated ==
    /\ engine = FraudDetectionEngine
    /\ \A t \in Threads :
          /\ th_pc[t] \in 0..8 =>
                /\ th_risk_score[t] = AfterRules(engine, th_txn[t], th_pc[t]).risk_score
                /\ th_risk_factors[t] = AfterRules(engine, th_txn[t], th_pc[t]).risk_factors
          /\ th_pc[t] = 9 => th_result[t] = analyze_transaction(engine, th_txn[t])

\* C5 witness: two calls on different transactions have both returned, with
\* different scores.
C5_Witness ==
    /\ th_pc[1] = 9 /\ th_pc[2] = 9
    /\ th_txn[1] # th_txn[2]
    /\ th_result[1].risk_score # th_result[2].risk_score

\* the results of a batch of valid records, in input order
ResultsOf(items) ==
    [i \in 1..Len(items) |-> process_transaction(engine, items[i]).value]

\* C6: a batch of valid records, the empty batch included, is answered with
\* total, fraudulent and legitimate counts, the results in input order and the
\* mean risk score, which is 0 for the empty batch.
C6_BatchSummary ==
    ( /\ BatchServed
      /\ request.body.kind = "array"
      /\ \A i \in 1..Len(request.body.items) : ~ItemFails(request.body.items[i]) )
    => LET expected == ResultsOf(request.body.items)
       IN  /\ response.status = 200
           /\ response.results = expected
           /\ response.total = Len(request.body.items)
           /\ response.fraudulent = CountStatus(expected, "Fraudulent")
           /\ response.legitimate = CountStatus(expected, "Legitimate")
           /\ response.fraudulent + response.legitimate = response.total
           /\ response.average_risk_score.den > 0
           /\ IF expected = <<>> THEN response.average_risk_score.num = 0
              ELSE response.average_risk_score.num * Len(expected)
                   = SumScores(expected) * response.average_risk_score.den

\* C6, for the batches that are not empty (what the handler does satisfy)
C6_NonEmptyBatchSummary ==
    request.body.items # <<>> => C6_BatchSummary

\* the transactions that fit scenario A: every history has entries, none of
\* them the current location, device or address
IsScenarioA(t) ==
    /\ t.amount = Units(5000) /\ t.avg_user_transaction_amount = Units(150)
    /\ t.transaction_frequency_24h = 12
    /\ t.user_location = "New York, USA" /\ t.merchant_location = "Moscow, Russia"
    /\ t.user_international_history = Some(FALSE)
    /\ Truthy(t.user_location_history)
    /\ ~InList(t.user_location, t.user_location_history.value)
    /\ t.device_type = "mobile" /\ t.user_device_history = Some(<< "web" >>)
    /\ Truthy(t.user_ip_history)
    /\ ~InList(t.ip_address, t.user_ip_history.value)
    /\ t.payment_method = "Card" /\ t.merchant_category = "Electronics"
    /\ t.transaction_time = "2024-01-15T14:30:00Z"

\* C7: scenario A contributes 25, 20, 30 + 15, 12, 10, 0, 0, 0, a raw sum of at
\* least 100, and is returned as 100, Fraudulent, Block transaction immediately.
C7_ScenarioA ==
    (pc = "return" /\ IsScenarioA(transaction)) =>
        /\ frame.amount_risk = 25
        /\ frame.frequency_risk = 20
        /\ frame.location_risk = 30 + 15 /\ Len(frame.location_factors) = 2
        /\ frame.device_risk = 12
        /\ frame.ip_risk = 10
        /\ frame.payment_risk = 0
        /\ frame.merchant_risk = 0
        /\ frame.time_risk = 0
        /\ FrameSum >= 100
        /\ result.risk_score = 100
        /\ result.fraud_status = "Fraudulent"
        /\ result.recommended_action = "Block transaction immediately"

\* C7 witness: the call on scenario A has returned.
C7_Witness ==
    pc = "return" /\ transaction = ScenarioA /\ result.risk_score = 100

\* C8: Example 3 of example_usage.py is a medium-risk transaction: its score is
\* in 40..69, its status Legitimate and its action Flag for review.
C8_Example3Medium ==
    (pc = "return" /\ transaction = Example3) =>
        /\ result.risk_score >= 40 /\ result.risk_score < 70
        /\ result.fraud_status = "Legitimate"
        /\ result.recommended_action = "Flag for review"

\* the cross-border contribution the claim gives for an international history
CrossBorderWeight(history) ==
    IF history = Some(FALSE) THEN 30 ELSE IF history.is_none THEN 20 ELSE 5

\* the location rule's result, given whether the history branch applies: +15
\* and the "New location detected" note exactly when it does, on top of a
\* cross-border contribution that is 0 or the weight of the international history
LocationRuleIs(newLocation) ==
    LET note == "New location detected: " \o transaction.user_location
        cross == frame.location_risk - (IF newLocation THEN 15 ELSE 0)
    IN  /\ cross \in {0, CrossBorderWeight(transaction.user_international_history)}
        /\ InList(note, frame.location_factors) <=> newLocation
        /\ Len(frame.location_factors)
             = (IF cross > 0 THEN 1 ELSE 0) + (IF newLocation THEN 1 ELSE 0)

\* C9 as claimed: the +15 applies exactly when user_location_history is present,
\* empty or not, and does not hold user_location.
C9_NewLocationIfPresent ==
    pc = "return" =>
        LocationRuleIs(/\ ~transaction.user_location_history.is_none
                       /\ ~InList(transaction.user_location,
                                  transaction.user_location_history.value))

\* C9 as amended: the +15 applies exactly when user_location_history is present
\* and not empty and does not hold user_location; with the history absent or
\* empty it never applies.
C9_NewLocationIfNonEmpty ==
    pc = "return" =>
        LocationRuleIs(/\ ~transaction.user_location_history.is_none
                       /\ transaction.user_location_history.value # <<>>
                       /\ ~InList(transaction.user_location,
                                  transaction.user_location_history.value))

\* C9 witness: a cross-border call with a present but empty location history
\* returned with the cross-border 30 alone.
C9_Witness ==
    /\ pc = "return"
    /\ transaction.user_location_history = Some(<<>>)
    /\ transaction.user_location # ""
    /\ frame.location_risk = 30

\* the device rule's result, given whether the history counts as there
DeviceRuleIs(hasHistory) ==
    IF ~hasHistory
    THEN frame.device_risk = 3
         /\ frame.device_factors = << "No device history available" >>
    ELSE IF InList(transaction.device_type, transaction.user_device_history.value)
    THEN frame.device_risk = 0 /\ frame.device_factors = <<>>
    ELSE /\ frame.device_risk = 12
         /\ Len(frame.device_factors) = 1
         /\ StartsWith(frame.device_factors[1], "New device type")

\* C10 as claimed: presence of user_device_history decides; a present but empty
\* history gives +12, not +3.
C10_DeviceByPresence ==
    pc = "return" => DeviceRuleIs(~transaction.user_device_history.is_none)

\* C10 as amended: a present and non-empty user_device_history decides; an
\* absent or empty history gives +3 with "No device history available".
C10_DeviceByNonEmpty ==
    pc = "return" =>
        DeviceRuleIs(/\ ~transaction.user_device_history.is_none
                     /\ transaction.user_device_history.value # <<>>)

\* C10 witness: a call with a present but empty device history returned with +3.
C10_Witness ==
    /\ pc = "return"
    /\ transaction.user_device_history = Some(<<>>)
    /\ frame.device_risk = 3

\* timestamps datetime.fromisoformat rejects: month 13 and day 45, a time
\* without a date, free text, the empty string
UnparsableTimes == {"2024-13-45T03:00:00Z", "03:45", "not-a-time", ""}

\* the call returned a result for its own transaction, scored from the eight
\* contributions
Returned ==
    /\ result.transaction_id = transaction.transaction_id
    /\ result.risk_score = Min(100, FrameSum)
    /\ result.fraud_status \in {"Fraudulent", "Legitimate"}

\* C11 as claimed: with the average 0, the device history absent, the IP history
\* absent or the time unparsable, the call returns and the affected rule
\* contributes exactly 0.
C11_DegradesToZero ==
    pc = "return" =>
        /\ Returned
        /\ transaction.avg_user_transaction_amount = 0 => frame.amount_risk = 0
        /\ transaction.user_device_history.is_none => frame.device_risk = 0
        /\ transaction.user_ip_history.is_none => frame.ip_risk = 0
        /\ transaction.transaction_time \in UnparsableTimes => frame.time_risk = 0

\* C11 as amended: in each of the four cases the call returns; an unparsable
\* time contributes 0 with no note; an average of 0 contributes 0 up to an
\* amount of 1000 and 10 with one note above it; an absent device history
\* contributes 3 with the note "No device history available"; an absent IP
\* history contributes 2 with no note.
C11_DegradesToFallback ==
    pc = "return" =>
        /\ Returned
        /\ transaction.avg_user_transaction_amount = 0 =>
              IF transaction.amount > Units(1000)
              THEN frame.amount_risk = 10 /\ Len(frame.amount_factors) = 1
              ELSE frame.amount_risk = 0 /\ frame.amount_factors = <<>>
        /\ transaction.user_device_history.is_none =>
              /\ frame.device_risk = 3
              /\ frame.device_factors = << "No device history available" >>
        /\ transaction.user_ip_history.is_none =>
              frame.ip_risk = 2 /\ frame.ip_factors = <<>>
        /\ transaction.transaction_time \in UnparsableTimes =>
              frame.time_risk = 0 /\ frame.time_factors = <<>>

\* C11 witness: a call with all four kinds of missing data at once (average 0
\* with an amount above 1000, no device history, no IP history, a time that is
\* free text) returned with the fallback contributions 10, 3, 2 and 0.
C11_Witness ==
    /\ pc = "return"
    /\ transaction.avg_user_transaction_amount = 0
    /\ transaction.amount > Units(1000)
    /\ transaction.user_device_history.is_none
    /\ transaction.user_ip_history.is_none
    /\ transaction.transaction_time = "not-a-time"
    /\ frame.amount_risk = 10 /\ frame.device_risk = 3
    /\ frame.ip_risk = 2 /\ frame.time_risk = 0

\* only the low-risk deduction applies to the category: it is one of the four
\* low-risk names whatever its case, and holds no high-risk keyword
LowRiskOnly(category) ==
    /\ Lower(category) \in {"retail", "groceries", "restaurant", "utilities"}
    /\ \A k \in {"gambling", "cryptocurrency", "adult", "cash advance"} :
          ~Contains(k, Lower(category))

\* C12: the merchant rule's contribution is never negative; when only the
\* low-risk deduction applies the contribution is 0 with exactly one note, the
\* "Known low-risk merchant category" one, and the total is the capped sum of
\* the other seven contributions, not lowered by 5.
C12_MerchantNeverNegative ==
    pc = "return" =>
        /\ frame.merchant_risk >= 0
        /\ LowRiskOnly(transaction.merchant_category) =>
              /\ frame.merchant_risk = 0
              /\ frame.merchant_factors =
                    << "Known low-risk merchant category: "
                       \o transaction.merchant_category >>
              /\ result.risk_score =
                    Min(100, frame.amount_risk + frame.frequency_risk
                             + frame.location_risk + frame.device_risk
                             + frame.ip_risk + frame.payment_risk + frame.time_risk)

\* C12 witness: a call for the category "Groceries" returned with a merchant
\* contribution of 0 and a non-zero total below the cap coming from the other
\* rules.
C12_Witness ==
    /\ pc = "return"
    /\ transaction.merchant_category = "Groceries"
    /\ frame.merchant_risk = 0
    /\ Len(frame.merchant_factors) = 1
    /\ result.risk_score \in 1..99

\* the reference band function of the amount rule, on the decimal amount and
\* average (in hundredths)
AmountBand(amount, avg) ==
    IF avg > 0
    THEN IF amount >= 3 * avg THEN 25
         ELSE IF amount >= 2 * avg THEN 15
         ELSE IF 10 * amount < avg THEN 5
         ELSE 0
    ELSE IF amount > Units(1000) THEN 10 ELSE 0

\* the amount rule's contribution is the reference band, with at most one note,
\* there exactly when the contribution is not 0
AmountRuleIsBand ==
    /\ frame.amount_risk
         = AmountBand(transaction.amount, transaction.avg_user_transaction_amount)
    /\ Len(frame.amount_factors) <= 1
    /\ Len(frame.amount_factors) = 1 <=> frame.amount_risk # 0

\* C13: for every non-negative amount and average the amount rule contributes
\* the reference band (25 from three times the average, 15 from twice, 5 below
\* a tenth, else 0; 10 above 1000 when the average is 0), an amount exactly at
\* three times or twice the average taking the higher band, with at most one
\* note, present iff the contribution is not 0.
C13_AmountBands ==
    pc = "return" => AmountRuleIsBand

\* C13 for whole amounts and averages, where the quotient of the doubles is
\* exact on the boundaries
C13_WholeAmountBands ==
    ( /\ pc = "return"
      /\ transaction.amount % 100 = 0
      /\ transaction.avg_user_transaction_amount % 100 = 0 ) => AmountRuleIsBand

\* the positions of the line breaks of a text
LineBreaks(s) == {i \in 1..Len(s) : SubSeq(s, i, i) = "\n"}

\* line k of a text, for 1 <= k <= Cardinality(LineBreaks(s)) + 1
LineOf(s, k) ==
    LET nl    == LineBreaks(s)
        nth(j) == CHOOSE p \in nl : Cardinality({q \in nl : q < p}) = j - 1
        from  == IF k = 1 THEN 1 ELSE nth(k - 1) + 1
        to    == IF k = Cardinality(nl) + 1 THEN Len(s) ELSE nth(k) - 1
    IN  SubSeq(s, from, to)

\* the notes of the eight rules, grouped by rule in the evaluator order
NotesInRuleOrder ==
    frame.amount_factors \o frame.frequency_factors \o frame.location_factors
    \o frame.device_factors \o frame.ip_factors \o frame.payment_factors
    \o frame.merchant_factors \o frame.time_factors

\* C14: risk_factors lists the notes grouped by rule in the order amount,
\* frequency, location, device, IP, payment method, merchant, time of day;
\* within the location rule the cross-border note precedes the new-location
\* note; and when risk_factors is not empty the reasoning text enumerates the
\* same notes 1..N in the same order, after its two heading lines.
C14_FactorsInRuleOrder ==
    pc = "return" =>
        /\ result.risk_factors = NotesInRuleOrder
        /\ Len(frame.location_factors) = 2 =>
              /\ StartsWith(frame.location_factors[1], "International transaction")
              /\ StartsWith(frame.location_factors[2], "New location detected")
        /\ result.risk_factors # <<>> =>
              /\ Cardinality(LineBreaks(result.reasoning)) + 1
                    = Len(result.risk_factors) + 4
              /\ \A i \in 1..Len(result.risk_factors) :
                    LineOf(result.reasoning, i + 2)
                      = ToString(i) \o ". " \o result.risk_factors[i]

\* C14 witness: a call returned with notes of the amount rule, both notes of
\* the location rule and notes of later rules, five or more in all.
C14_Witness ==
    /\ pc = "return"
    /\ frame.amount_factors # <<>>
    /\ Len(frame.location_factors) = 2
    /\ frame.device_factors # <<>>
    /\ frame.ip_factors # <<>>
    /\ Len(result.risk_factors) >= 5
    /\ StartsWith(LineOf(result.reasoning, 3), "1. ")

\* C15: the "Transaction appears legitimate" narrative is the reasoning exactly
\* when risk_factors is empty, and then risk_score is 0 or 2: every rule but
\* the IP rule has a note whenever its contribution is not 0, and the IP rule
\* without a note contributes 0 or the flat 2 for a missing history.
C15_NoFactorsNearZero ==
    pc = "return" =>
        /\ result.risk_factors = <<>> => result.risk_score \in {0, 2}
        /\ StartsWith(result.reasoning, "Transaction appears legitimate")
             <=> result.risk_factors = <<>>
        /\ frame.amount_risk # 0 => frame.amount_factors # <<>>
        /\ frame.frequency_risk # 0 => frame.frequency_factors # <<>>
        /\ frame.location_risk # 0 => frame.location_factors # <<>>
        /\ frame.device_risk # 0 => frame.device_factors # <<>>
        /\ frame.payment_risk # 0 => frame.payment_factors # <<>>
        /\ frame.merchant_risk # 0 => frame.merchant_factors # <<>>
        /\ frame.time_risk # 0 => frame.time_factors # <<>>
        /\ frame.ip_factors = <<>> =>
              /\ frame.ip_risk \in {0, 2}
              /\ frame.ip_risk = 2 <=> ~Truthy(transaction.user_ip_history)

\* C15 witness: a call returned the "appears legitimate" narrative with no
\* risk factor and a score of 2, the IP history being absent.
C15_Witness ==
    /\ pc = "return"
    /\ result.risk_factors = <<>>
    /\ result.risk_score = 2
    /\ transaction.user_ip_history.is_none
    /\ StartsWith(result.reasoning, "Transaction appears legitimate")

\* the converse of C15 fails in this state: a score of 0 with a risk factor,
\* the low-risk merchant note
C15_ZeroScoreWithFactor ==
    /\ pc = "return"
    /\ result.risk_score = 0
    /\ result.risk_factors # <<>>

====
